---- MODULE Spec2Model ----
(***************************************************************************)
(* The readiness poller of build-with-tina.js: isPortListening (one socket *)
(* connect raced against a 3000 ms timer), isPortListeningFallback (four   *)
(* shell commands tried in order) and waitForTinaServer (the polling loop  *)
(* bounded by a wall-clock deadline), and main, which spawns the dev       *)
(* server, waits for it with waitForTinaServer, runs the build and shuts   *)
(* the dev server down.                                                    *)
(*                                                                         *)
(* Time is in milliseconds.  Text (command lines, command output) is a     *)
(* sequence of one-character strings, so that grep is a substring search.  *)
(***************************************************************************)
EXTENDS Integers, Sequences, FiniteSets, TLC

VARIABLES
    now,            \* Date.now()
    sockets,        \* the kernel's socket table (what ss/netstat/lsof/proc show)
    link,           \* what happens to a connect to TINA_HOST:TINA_PORT
    envChanges,     \* number of changes the environment has made
    pc,             \* position of waitForTinaServer
    maxWaitTime,    \* parameter of waitForTinaServer
    startTime,      \* waitForTinaServer: const startTime
    attempts,       \* waitForTinaServer: let attempts
    sock,           \* isPortListening: the net.Socket
    resolved,       \* isPortListening: let resolved
    timerArmed,     \* isPortListening: const timeout (the pending setTimeout)
    timerAt,        \* the time the pending setTimeout is due
    probeResult,    \* the value the promise of isPortListening settled to
    cmdIdx,         \* isPortListeningFallback: index of the command in flight
    fbStart,        \* the time isPortListeningFallback was called
    fbResult,       \* the value isPortListeningFallback returned
    sleepUntil,     \* the time the setTimeout(resolve, CHECK_INTERVAL) is due
    fired,          \* the events the runtime has delivered for the socket
    hist,           \* observations of the run (not program state)
    mpc,            \* position of main ("off": main is not running)
    kcmd,           \* killProcess: index of the command in flight
    tina,           \* the child process of line 205
    killed,         \* tinaProcess.killed
    signals,        \* the signals delivered to the child, with their sender
    build,          \* the child process of line 224
    graceUntil,     \* the time the setTimeout(resolve, 2000) of line 252 is due
    exitCode        \* exit status of the script (-1: still running)

mainVars == <<mpc, kcmd, tina, killed, signals, build, graceUntil, exitCode>>

vars == <<now, sockets, link, envChanges, pc, maxWaitTime, startTime, attempts,
          sock, resolved, timerArmed, timerAt, probeResult, cmdIdx, fbStart,
          fbResult, sleepUntil, fired, hist, mainVars>>

(***************************************************************************)
(* Configuration                                                           *)
(***************************************************************************)
TINA_PORT == 4001
CHECK_INTERVAL == 2000
PROBE_TIMEOUT == 3000
MAX_WAIT_TIME == 60000
GRACE_MS == 2000

\* granularity of the clock, and the longest the four shell commands of one
\* fallback call take together
TickMs == CHECK_INTERVAL \div 2
FallbackMaxMs == TickMs

\* the values of maxWaitTime and of Date.now() at the call that are explored
MaxWaitChoices == {0, PROBE_TIMEOUT, PROBE_TIMEOUT + CHECK_INTERVAL}
StartTimes == {TickMs}

MaxNow == 16000
MaxEnvChanges == 1

\* the clock stops at Horizon; a run of main waits up to MAX_WAIT_TIME
Horizon == IF mpc = "off" THEN MaxNow ELSE MaxNow + MAX_WAIT_TIME

Min(a, b) == IF a <= b THEN a ELSE b

(***************************************************************************)
(* Text                                                                    *)
(***************************************************************************)
DecDigits == <<"0", "1", "2", "3", "4", "5", "6", "7", "8", "9">>
HexLower == DecDigits \o <<"a", "b", "c", "d", "e", "f">>
HexUpper == DecDigits \o <<"A", "B", "C", "D", "E", "F">>

RECURSIVE ToRadix(_, _, _)
ToRadix(n, base, digits) ==
    IF n < base THEN <<digits[n + 1]>>
    ELSE ToRadix(n \div base, base, digits) \o <<digits[(n % base) + 1]>>

\* `${port}`
ToString10(n) == ToRadix(n, 10, DecDigits)
\* port.toString(16)
ToString16(n) == ToRadix(n, 16, HexLower)
\* the %04X of /proc/net/tcp
Hex4(n) ==
    LET h == ToRadix(n, 16, HexUpper)
    IN  [i \in 1..(4 - Len(h)) |-> "0"] \o h

Contains(line, pat) ==
    \E i \in 1..(Len(line) - Len(pat) + 1) :
        SubSeq(line, i, i + Len(pat) - 1) = pat

\* grep pat: the lines that contain pat
Grep(lines, pat) == {l \in lines : Contains(l, pat)}

\* stdout.trim() is a non-empty string
TrimNonEmpty(out) == \E l \in out : \E i \in 1..Len(l) : l[i] # " "

(***************************************************************************)
(* The environment: sockets of the host and the path to the target         *)
(***************************************************************************)
Server  == [proto |-> "tcp", state |-> "LISTEN", lport |-> TINA_PORT, rport |-> 0]
Other   == [proto |-> "tcp", state |-> "LISTEN", lport |-> TINA_PORT * 10, rport |-> 0]
Client  == [proto |-> "tcp", state |-> "ESTAB", lport |-> 50000, rport |-> TINA_PORT]
SocketUniverse == {Server, Other, Client}

\* "ok": a connect is answered (accepted by a listener, refused without one);
\* "refuse": refused whatever is bound (e.g. localhost resolves to an address
\* the server is not bound to); "drop": no answer ever comes
Links == {"ok", "refuse", "drop"}

\* a TCP listener is bound to the port
Listening(tbl, port) ==
    \E s \in tbl : s.proto = "tcp" /\ s.state = "LISTEN" /\ s.lport = port
Accepting == Listening(sockets, TINA_PORT) /\ link = "ok"
Refusing == link = "refuse" \/ (link = "ok" /\ ~Listening(sockets, TINA_PORT))

\* a row of ss -tuln / netstat -tuln: Local Address:Port, Peer Address:Port
ListenRow(s) == <<"*", ":">> \o ToString10(s.lport) \o <<" ", "*", ":", "*">>
\* ss -tuln and netstat -tuln list the listening (-l) TCP and UDP sockets
ListenTable(tbl) == {ListenRow(s) : s \in {t \in tbl : t.state \in {"LISTEN", "UNCONN"}}}

\* a row of lsof -i: NAME is local->remote for a connection
LsofRow(s) ==
    IF s.rport = 0 THEN <<"*", ":">> \o ToString10(s.lport)
    ELSE <<"h", ":">> \o ToString10(s.lport) \o <<"-", ">", "h", ":">> \o ToString10(s.rport)
\* lsof -i :port selects the sockets whose local or remote port is port,
\* and prints nothing (exit 1) if there is none
Lsof(tbl, port) ==
    LET sel == {s \in tbl : s.lport = port \/ s.rport = port}
    IN  IF sel = {} THEN {} ELSE {<<"N", "A", "M", "E">>} \cup {LsofRow(s) : s \in sel}

\* a row of /proc/net/tcp: local_address rem_address, ports as %04X
ProcRow(s) == <<"0", ":">> \o Hex4(s.lport) \o <<" ", "0", ":">> \o Hex4(s.rport)
ProcNetTcp(tbl) == {ProcRow(s) : s \in {t \in tbl : t.proto = "tcp"}}

(***************************************************************************)
(* isPortListeningFallback: the commands                                   *)
(***************************************************************************)
NumCommands == 4

\* stdout of commands[i] run against socket table tbl
CommandOutput(i, tbl, port) ==
    CASE i = 1 -> Grep(ListenTable(tbl), <<":">> \o ToString10(port))
      [] i = 2 -> Grep(ListenTable(tbl), <<":">> \o ToString10(port))
      [] i = 3 -> Lsof(tbl, port)
      [] i = 4 -> Grep(ProcNetTcp(tbl), <<":">> \o ToString16(port))

\* execAsync(commands[i]): rejects when the command cannot be run or exits
\* non-zero (grep and lsof exit 1 when they print nothing)
ExecAsync(i, tbl, port, runs) ==
    LET out == CommandOutput(i, tbl, port)
    IN  IF runs /\ out # {} THEN [error |-> FALSE, stdout |-> out]
        ELSE [error |-> TRUE, stdout |-> {}]

(***************************************************************************)
(* Initial state: waitForTinaServer has not been called yet                *)
(***************************************************************************)
NoHist ==
    [ probes       |-> 0,         \* calls of isPortListening so far
      probeStartAt |-> -1,        \* time of the last call of isPortListening
      firstEvent   |-> "none",    \* the first callback that ran for the socket
      lateEvents   |-> 0,         \* callbacks that ran after the first
      resolveCalls |-> 0,         \* calls of resolve() for the current promise
      resultAtFirst |-> "pending",\* probeResult right after the first callback
      resolvedAt   |-> -1,        \* time of the first resolve()
      closedBy     |-> "none",    \* who destroyed the socket
      timerFiredAfterConnect |-> FALSE,
      noListener   |-> FALSE,     \* no TCP listener on the port during the probe
      stableUp     |-> FALSE,     \* target accepting since the probe started
      fallbacks    |-> 0,         \* calls of isPortListeningFallback so far
      fbAttempt    |-> 0,         \* value of attempts at the last fallback call
      cmdLog       |-> <<>>,      \* the commands the last fallback call ran
      method       |-> "none",    \* the method logged on success
      listenerAtSuccess |-> FALSE,\* a listener was bound to the port when the
                                  \* last probe that reported true did so
      downAtStart  |-> FALSE,     \* target not accepting at the call
      upSince      |-> -1,        \* time since which the target is accepting
      upAttempts   |-> 0,         \* value of attempts when it began to accept
                                  \* (both kept for a call outside main only)
      sleeps       |-> 0,         \* number of setTimeout(resolve, CHECK_INTERVAL)
      spaced       |-> TRUE,      \* every attempt began at least CHECK_INTERVAL
                                  \* after the one before
      error        |-> <<>>,      \* the Error thrown: <<seconds, attempts>> of
                                  \* the message of line 155
      stillRunning |-> FALSE ]    \* the child was running when line 255 ran

\* line 195: let tinaProcess = null; nothing spawned, nothing signalled
MainIdle(at) ==
    /\ mpc = at
    /\ kcmd = 0
    /\ tina = "none"
    /\ killed = FALSE
    /\ signals = {}
    /\ build = "none"
    /\ graceUntil = 0
    /\ exitCode = -1

Init ==
    /\ now \in StartTimes
    /\ sockets \in SUBSET SocketUniverse
    /\ link \in Links
    /\ envChanges = 0
    /\ pc = "init"
    /\ maxWaitTime \in MaxWaitChoices
    /\ startTime = 0
    /\ attempts = 0
    /\ sock = "none"
    /\ resolved = FALSE
    /\ timerArmed = FALSE
    /\ timerAt = 0
    /\ probeResult = "pending"
    /\ cmdIdx = 0
    /\ fbStart = 0
    /\ fbResult = FALSE
    /\ sleepUntil = 0
    /\ fired = {}
    /\ hist = [NoHist EXCEPT !.upSince = IF Accepting THEN now ELSE -1]
    /\ MainIdle("off")

envVars == <<sockets, link, envChanges>>
probeVars == <<sock, resolved, timerArmed, timerAt, probeResult, fired>>
fbVars == <<cmdIdx, fbStart, fbResult>>

(***************************************************************************)
(* isPortListening                                                         *)
(***************************************************************************)
\* lines 30-42 and 74: new net.Socket(), setTimeout(..., 3000), the three
\* socket.on(...), socket.connect(port, host)
isPortListening ==
    /\ sock' = "connecting"
    /\ resolved' = FALSE
    /\ timerArmed' = TRUE
    /\ timerAt' = now + PROBE_TIMEOUT
    /\ probeResult' = "pending"
    /\ fired' = {}

ProbeStartHist(h) ==
    [h EXCEPT !.probes = @ + 1,
              !.probeStartAt = now,
              !.spaced = @ /\ (h.probes > 0 => now - h.probeStartAt >= CHECK_INTERVAL),
              !.firstEvent = "none",
              !.lateEvents = 0,
              !.resolveCalls = 0,
              !.resultAtFirst = "pending",
              !.resolvedAt = -1,
              !.closedBy = "none",
              !.timerFiredAfterConnect = FALSE,
              !.noListener = ~Listening(sockets, TINA_PORT),
              !.stableUp = Accepting]

\* resolve(v): a promise settles once, later calls are ignored by it
Resolve(v) ==
    probeResult' = IF probeResult = "pending" THEN v ELSE probeResult

\* bookkeeping of a callback: ev ran; called says whether it called resolve()
Observe(ev, called, byProbe) ==
    hist' = [hist EXCEPT
        !.firstEvent = IF @ = "none" THEN ev ELSE @,
        !.lateEvents = IF hist.firstEvent = "none" THEN @ ELSE Min(@ + 1, 2),
        !.resolveCalls = IF called THEN Min(@ + 1, 2) ELSE @,
        !.resultAtFirst = IF hist.firstEvent = "none" THEN probeResult' ELSE @,
        !.resolvedAt = IF called /\ @ = -1 THEN now ELSE @,
        !.listenerAtSuccess = IF called /\ probeResult' = "true"
                              THEN Listening(sockets, TINA_PORT) ELSE @,
        !.closedBy = IF @ # "none" THEN @
                     ELSE IF ev = "error" THEN "runtime"
                     ELSE IF byProbe THEN "probe" ELSE @,
        !.timerFiredAfterConnect = @ \/ (ev = "timer" /\ hist.firstEvent = "connect")]

\* A listener of the socket is called when the event happens on the live
\* socket or, once the socket is destroyed and before the caller goes on, as
\* a stray call: the model does not rely on a destroyed socket being silent.
\* Each event is delivered at most once.
Emitted(ev, live) ==
    /\ pc = "awaitProbe"
    /\ ev \notin fired
    /\ \/ sock = "connecting" /\ live
       \/ sock = "destroyed"

\* The body of a callback.  guard is its test of the resolved flag; under
\* the guard it sets the flag, clears the timer (clears), destroys the socket
\* (destroys) and calls resolve(v) (resolves).  sockNow and armedNow are the
\* socket and the timer as the callback finds them.
Callback(ev, guard, clears, destroys, resolves, v, sockNow, armedNow) ==
    IF guard
    THEN /\ resolved' = TRUE
         /\ timerArmed' = (armedNow /\ ~clears)
         /\ sock' = IF destroys THEN "destroyed" ELSE sockNow
         /\ IF resolves THEN Resolve(v) ELSE UNCHANGED probeResult
         /\ Observe(ev, resolves, destroys)
    ELSE /\ timerArmed' = armedNow
         /\ sock' = sockNow
         /\ UNCHANGED <<resolved, probeResult>>
         /\ Observe(ev, FALSE, FALSE)

progVars == <<now, envVars, pc, maxWaitTime, startTime, attempts, timerAt,
              fbVars, sleepUntil>>

\* variant: the timer callback without socket.destroy()
OnTimerNoDestroy ==
    /\ timerArmed
    /\ now >= timerAt
    /\ Callback("timer", ~resolved, FALSE, FALSE, TRUE, "false", sock, FALSE)
    /\ UNCHANGED <<progVars, fired>>
    /\ UNCHANGED mainVars

\* variant: the timer callback without resolve(false)
OnTimerNoResolve ==
    /\ timerArmed
    /\ now >= timerAt
    /\ Callback("timer", ~resolved, FALSE, TRUE, FALSE, "false", sock, FALSE)
    /\ UNCHANGED <<progVars, fired>>
    /\ UNCHANGED mainVars

\* lines 35-42: the setTimeout callback (the timer is no longer pending once
\* it has fired): socket.destroy(), resolve(false)
OnTimer ==
    /\ timerArmed
    /\ now >= timerAt
    /\ Callback("timer", ~resolved, FALSE, TRUE, TRUE, "false", sock, FALSE)
    /\ UNCHANGED <<progVars, fired>>
    /\ UNCHANGED mainVars

\* variant: the connect callback without clearTimeout(timeout)
OnConnectNoClear ==
    /\ Emitted("connect", Accepting)
    /\ fired' = fired \cup {"connect"}
    /\ Callback("connect", ~resolved, FALSE, TRUE, TRUE, "true", sock, timerArmed)
    /\ UNCHANGED progVars
    /\ UNCHANGED mainVars

\* variant: the connect callback calling resolve(false)
OnConnectResolvesFalse ==
    /\ Emitted("connect", Accepting)
    /\ fired' = fired \cup {"connect"}
    /\ Callback("connect", ~resolved, TRUE, TRUE, TRUE, "false", sock, timerArmed)
    /\ UNCHANGED progVars
    /\ UNCHANGED mainVars

\* lines 44-52: socket.on('connect'): clearTimeout, socket.destroy(),
\* resolve(true)
OnConnect ==
    /\ Emitted("connect", Accepting)
    /\ fired' = fired \cup {"connect"}
    /\ Callback("connect", ~resolved, TRUE, TRUE, TRUE, "true", sock, timerArmed)
    /\ UNCHANGED progVars
    /\ UNCHANGED mainVars

\* variant: the error callback without the test of resolved
OnErrorUnguarded ==
    /\ Emitted("error", Refusing)
    /\ fired' = fired \cup {"error"}
    /\ Callback("error", TRUE, TRUE, FALSE, TRUE, "false", "destroyed", timerArmed)
    /\ UNCHANGED progVars
    /\ UNCHANGED mainVars

\* lines 54-61: socket.on('error'): clearTimeout, resolve(false).  The handler
\* does not destroy the socket; the runtime has destroyed it before it emits
\* 'error'
OnError ==
    /\ Emitted("error", Refusing)
    /\ fired' = fired \cup {"error"}
    /\ Callback("error", ~resolved, TRUE, FALSE, TRUE, "false", "destroyed", timerArmed)
    /\ UNCHANGED progVars
    /\ UNCHANGED mainVars

\* lines 63-71: socket.on('timeout'): clearTimeout, socket.destroy(),
\* resolve(false).  No idle timeout is set on the socket (socket.setTimeout is
\* never called), so the live socket never emits it
OnSocketTimeout ==
    /\ Emitted("timeout", FALSE)
    /\ fired' = fired \cup {"timeout"}
    /\ Callback("timeout", ~resolved, TRUE, TRUE, TRUE, "false", sock, timerArmed)
    /\ UNCHANGED progVars
    /\ UNCHANGED mainVars

(***************************************************************************)
(* isPortListeningFallback                                                 *)
(***************************************************************************)
\* lines 84-96: build commands, enter the loop, execAsync(commands[0])
isPortListeningFallback ==
    /\ cmdIdx' = 1
    /\ fbStart' = now
    /\ fbResult' = FALSE

\* One turn of the loop over commands, entered when the command in flight
\* has ended with result r; onError is what the catch clause does and onFound
\* what is done when the output is not empty
LoopBody(r, onError, onFound) ==
    LET found == ~r.error /\ TrimNonEmpty(r.stdout)
        entry == [cmd |-> cmdIdx, error |-> r.error, stdout |-> r.stdout]
        goOn  == /\ found => onFound = "continue"
                 /\ r.error => onError = "continue"
                 /\ cmdIdx < NumCommands
        seen  == found \/ \E i \in 1..Len(hist.cmdLog) :
                    ~hist.cmdLog[i].error /\ TrimNonEmpty(hist.cmdLog[i].stdout)
    IN  /\ IF r.error /\ onError = "throw"
           THEN /\ hist' = [hist EXCEPT !.cmdLog = Append(@, entry),
                                        !.error = <<"exec">>]
                /\ pc' = "failed"
                /\ UNCHANGED <<cmdIdx, fbStart, fbResult>>
           ELSE /\ hist' = [hist EXCEPT
                        !.cmdLog = Append(@, entry),
                        !.listenerAtSuccess =
                            IF found THEN Listening(sockets, TINA_PORT) ELSE @]
                /\ IF goOn
                   THEN /\ cmdIdx' = cmdIdx + 1
                        /\ UNCHANGED <<fbStart, fbResult, pc>>
                   ELSE /\ fbResult' = IF onFound = "continue" THEN seen ELSE found
                        /\ pc' = "fbDone"
                        /\ UNCHANGED <<cmdIdx, fbStart>>

\* variant: the catch clause returns false instead of continuing
ExecDoneStopOnError ==
    /\ pc = "awaitCmd"
    /\ \E runs \in BOOLEAN :
            LoopBody(ExecAsync(cmdIdx, sockets, TINA_PORT, runs), "return", "return")
    /\ UNCHANGED <<now, envVars, maxWaitTime, startTime, attempts, probeVars, sleepUntil>>
    /\ UNCHANGED mainVars

\* variant: the inner catch clause is missing, a rejection reaches the caller
ExecDoneThrows ==
    /\ pc = "awaitCmd"
    /\ \E runs \in BOOLEAN :
            LoopBody(ExecAsync(cmdIdx, sockets, TINA_PORT, runs), "throw", "return")
    /\ UNCHANGED <<now, envVars, maxWaitTime, startTime, attempts, probeVars, sleepUntil>>
    /\ UNCHANGED mainVars

\* variant: the loop goes on after a command with output
ExecDoneNoShortCircuit ==
    /\ pc = "awaitCmd"
    /\ \E runs \in BOOLEAN :
            LoopBody(ExecAsync(cmdIdx, sockets, TINA_PORT, runs), "continue", "continue")
    /\ UNCHANGED <<now, envVars, maxWaitTime, startTime, attempts, probeVars, sleepUntil>>
    /\ UNCHANGED mainVars

\* lines 94-107: the command in flight has ended; return true on non-empty
\* output, otherwise (an error is caught, or the output is empty) go on with
\* the next command, and return false after the last
ExecDone ==
    /\ pc = "awaitCmd"
    /\ \E runs \in BOOLEAN :
            LoopBody(ExecAsync(cmdIdx, sockets, TINA_PORT, runs), "continue", "return")
    /\ UNCHANGED <<now, envVars, maxWaitTime, startTime, attempts, probeVars, sleepUntil>>
    /\ UNCHANGED mainVars

(***************************************************************************)
(* waitForTinaServer                                                       *)
(***************************************************************************)
\* lines 125-131 and 155: the loop with its test already evaluated
Loop(inTime, att, h) ==
    /\ UNCHANGED <<now, envVars, maxWaitTime, fbVars, sleepUntil>>
    /\ IF inTime
       THEN /\ attempts' = att + 1
            /\ isPortListening
            /\ hist' = ProbeStartHist(h)
            /\ pc' = "awaitProbe"
       ELSE /\ attempts' = att
            /\ hist' = [h EXCEPT !.error = <<maxWaitTime \div 1000, att>>]
            /\ pc' = "failed"
            /\ UNCHANGED probeVars

\* variant: the operands of the subtraction swapped
IterateSwapped(st, att, h) == Loop(st - now < maxWaitTime, att, h)

\* variant: <= in place of <
IterateInclusive(st, att, h) == Loop(now - st <= maxWaitTime, att, h)

\* variant: the test is made after the first turn only (do ... while)
IterateDoWhile(st, att, h) == Loop(att = 0 \/ now - st < maxWaitTime, att, h)

\* line 125: while (Date.now() - startTime < maxWaitTime); lines 126-131:
\* attempts++, the call of isPortListening; line 155: the throw
Iterate(st, att, h) == Loop(now - st < maxWaitTime, att, h)

\* variant: let attempts = 1
waitForTinaServerFromOne ==
    /\ pc = "init"
    /\ mpc \in {"off", "wait"}
    /\ startTime' = now
    /\ Iterate(now, 1, [hist EXCEPT !.downAtStart = ~Accepting])
    /\ UNCHANGED mainVars

\* lines 119-131: the call, up to the first await
waitForTinaServer ==
    /\ pc = "init"
    /\ mpc \in {"off", "wait"}
    /\ startTime' = now
    /\ Iterate(now, 0, [hist EXCEPT !.downAtStart = ~Accepting])
    /\ UNCHANGED mainVars

\* lines 132-139: the test of isReady; return, or call the fallback
IfReady(isReady) ==
    /\ IF isReady
       THEN /\ pc' = "returned"
            /\ hist' = [hist EXCEPT !.method = "socket"]
            /\ UNCHANGED fbVars
       ELSE /\ isPortListeningFallback
            /\ pc' = "awaitCmd"
            /\ hist' = [hist EXCEPT !.fallbacks = @ + 1,
                                    !.fbAttempt = attempts,
                                    !.cmdLog = <<>>]
    /\ UNCHANGED <<now, envVars, maxWaitTime, startTime, attempts, probeVars, sleepUntil>>

\* variant: the fallback is called whatever isReady is
AfterProbeAlwaysFallback ==
    /\ pc = "awaitProbe"
    /\ probeResult # "pending"
    /\ IfReady(FALSE)
    /\ UNCHANGED mainVars

\* variant: the promise of isPortListening is not awaited
AfterProbeNoAwait ==
    /\ pc = "awaitProbe"
    /\ IfReady(probeResult = "true")
    /\ UNCHANGED mainVars

\* lines 131-139: isPortListening has settled; return, or call the fallback
AfterProbe ==
    /\ pc = "awaitProbe"
    /\ probeResult # "pending"
    /\ IfReady(probeResult = "true")
    /\ UNCHANGED mainVars

\* lines 140-152: the test of isReadyFallback; return, or sleep for delay
IfReadyFallback(delay) ==
    /\ IF fbResult
       THEN /\ pc' = "returned"
            /\ hist' = [hist EXCEPT !.method = "fallback"]
            /\ UNCHANGED sleepUntil
       ELSE /\ pc' = "sleep"
            /\ sleepUntil' = now + delay
            /\ hist' = [hist EXCEPT !.sleeps = @ + 1]
    /\ UNCHANGED <<now, envVars, maxWaitTime, startTime, attempts, probeVars, fbVars>>

\* variant: the loop goes round without a delay
AfterFallbackNoSleep ==
    /\ pc = "fbDone"
    /\ IfReadyFallback(0)
    /\ UNCHANGED mainVars

\* lines 139-152: isPortListeningFallback has returned; return, or sleep
AfterFallback ==
    /\ pc = "fbDone"
    /\ IfReadyFallback(CHECK_INTERVAL)
    /\ UNCHANGED mainVars

\* variant: the loop goes on before the delay is over
AfterSleepEarly ==
    /\ pc = "sleep"
    /\ UNCHANGED startTime
    /\ Iterate(startTime, attempts, hist)
    /\ UNCHANGED mainVars

\* line 152 -> 125: the sleep is over, next loop test
AfterSleep ==
    /\ pc = "sleep"
    /\ now >= sleepUntil
    /\ UNCHANGED startTime
    /\ Iterate(startTime, attempts, hist)
    /\ UNCHANGED mainVars

(***************************************************************************)
(* Time and the environment                                                *)
(***************************************************************************)
\* The clock moves on while the program waits for a callback.  It does not
\* move past a pending timer or past the end of the fallback commands, and
\* an answered connect (accepted or refused) is delivered before it moves.
Advance ==
    /\ pc \in {"awaitProbe", "awaitCmd", "sleep"} \/ mpc = "grace"
    /\ pc = "awaitProbe" =>
            /\ probeResult = "pending"
            /\ ~(Accepting /\ "connect" \notin fired)
            /\ ~(Refusing /\ "error" \notin fired)
    /\ LET d1 == IF timerArmed THEN timerAt ELSE Horizon
           d2 == IF pc = "sleep" THEN sleepUntil ELSE Horizon
           d3 == IF pc = "awaitCmd" THEN fbStart + FallbackMaxMs ELSE Horizon
           d4 == IF mpc = "grace" THEN graceUntil ELSE Horizon
           t  == Min(Min(now + TickMs, d4), Min(Min(d1, d2), Min(d3, Horizon)))
       IN  /\ t > now
           /\ now' = t
    /\ UNCHANGED <<envVars, pc, maxWaitTime, startTime, attempts, probeVars,
                   fbVars, sleepUntil, hist>>
    /\ UNCHANGED mainVars

\* a socket is opened or closed on the host, or the path to the target changes
EnvChange ==
    /\ pc \in {"awaitProbe", "awaitCmd", "sleep"}
    /\ pc = "awaitProbe" => probeResult = "pending"
    /\ envChanges < MaxEnvChanges
    /\ envChanges' = envChanges + 1
    /\ \/ /\ \E s \in SocketUniverse :
                sockets' = IF s \in sockets THEN sockets \ {s} ELSE sockets \cup {s}
          /\ UNCHANGED link
       \/ /\ \E l \in Links \ {link} : link' = l
          /\ UNCHANGED sockets
    /\ hist' = [hist EXCEPT
            !.noListener = @ /\ ~Listening(sockets', TINA_PORT),
            !.stableUp = @ /\ Accepting',
            !.upSince = IF ~Accepting' \/ mpc # "off" THEN -1
                        ELSE IF Accepting THEN @ ELSE now,
            !.upAttempts = IF Accepting' /\ ~Accepting /\ mpc = "off"
                           THEN attempts ELSE @]
    /\ UNCHANGED <<now, pc, maxWaitTime, startTime, attempts, probeVars,
                   fbVars, sleepUntil>>
    /\ UNCHANGED mainVars

(***************************************************************************)
(* main                                                                    *)
(***************************************************************************)
pollerVars == <<pc, maxWaitTime, startTime, attempts, probeVars, fbVars,
                sleepUntil>>

\* lines 175-179: pkill, pgrep | xargs kill -9, ps | grep | awk | xargs kill -9
NumKillCommands == 3

\* lines 194-201: main is called; await killProcess('tinacms dev')
main ==
    /\ mpc = "start"
    /\ mpc' = "killOld"
    /\ kcmd' = 1
    /\ UNCHANGED <<now, envVars, pollerVars, hist, tina, killed, signals, build,
                   graceUntil, exitCode>>

\* lines 181-189: one command of killProcess has ended.  The first command
\* that ends without error ends the function; pkill sends SIGTERM, the two
\* others send SIGKILL, to every process whose command line matches (the
\* child of line 205 if it runs).  A command fails if it is not installed or
\* matches no process.
killProcess ==
    /\ mpc \in {"killOld", "killRest"}
    /\ \E ok \in BOOLEAN :
        LET sig == IF kcmd = 1 THEN "SIGTERM" ELSE "SIGKILL"
            by  == IF kcmd = 1 THEN "pkill" ELSE "xargs"
            hit == ok /\ tina = "running"
        IN  /\ signals' = IF hit THEN signals \cup {<<sig, by>>} ELSE signals
            /\ tina' = IF hit /\ sig = "SIGKILL" THEN "exited" ELSE tina
            /\ IF ok \/ kcmd = NumKillCommands
               THEN /\ kcmd' = 0
                    /\ mpc' = IF mpc = "killOld" THEN "spawn" ELSE "done"
               ELSE /\ kcmd' = kcmd + 1
                    /\ UNCHANGED mpc
    /\ UNCHANGED <<now, envVars, pollerVars, hist, killed, build, graceUntil,
                   exitCode>>

\* lines 203-220: tinaProcess = spawn(...); waitForTinaServer() is called next
SpawnTina ==
    /\ mpc = "spawn"
    /\ tina' = "running"
    /\ mpc' = "wait"
    /\ UNCHANGED <<now, envVars, pollerVars, hist, kcmd, killed, signals, build,
                   graceUntil, exitCode>>

\* the child of line 205 ends (by itself, or on a signal it was sent)
ChildExit ==
    /\ tina = "running"
    /\ mpc \in {"wait", "build", "grace", "done"}
    /\ tina' = "exited"
    /\ UNCHANGED <<now, envVars, pollerVars, hist, mpc, kcmd, killed, signals,
                   build, graceUntil, exitCode>>

\* variant: waitForTinaServer() is not awaited
SpawnBuildNoAwait ==
    /\ mpc = "wait"
    /\ pc # "init"
    /\ build' = "running"
    /\ mpc' = "build"
    /\ UNCHANGED <<now, envVars, pollerVars, hist, kcmd, tina, killed, signals,
                   graceUntil, exitCode>>

\* lines 220-227: waitForTinaServer has returned; buildProcess = spawn(...)
SpawnBuild ==
    /\ mpc = "wait"
    /\ pc = "returned"
    /\ build' = "running"
    /\ mpc' = "build"
    /\ UNCHANGED <<now, envVars, pollerVars, hist, kcmd, tina, killed, signals,
                   graceUntil, exitCode>>

\* lines 242-244: the catch clause: process.exit(1) ends the process there
\* and then; the finally clause of lines 245-262 is not run
Catch ==
    /\ mpc' = "exited"
    /\ exitCode' = 1

\* line 220 throws: waitForTinaServer has thrown its Error
WaitFailed ==
    /\ mpc = "wait"
    /\ pc = "failed"
    /\ Catch
    /\ UNCHANGED <<now, envVars, pollerVars, hist, kcmd, tina, killed, signals,
                   build, graceUntil>>

\* lines 246-252: the finally clause after the try block has completed:
\* tinaProcess.kill('SIGTERM'), then the sleep of 2000 ms.  kill() delivers
\* the signal and sets tinaProcess.killed if the child has not ended yet.
Finally ==
    /\ mpc' = "grace"
    /\ graceUntil' = now + GRACE_MS
    /\ IF tina = "running"
       THEN /\ signals' = signals \cup {<<"SIGTERM", "kill">>}
            /\ killed' = TRUE
       ELSE UNCHANGED <<signals, killed>>

\* lines 229-240: the 'close' event of the build: resolve on code 0 (and go
\* to the finally clause), reject on any other code (and go to the catch)
BuildClose ==
    /\ mpc = "build"
    /\ build = "running"
    /\ \E code \in {0, 1} :
        IF code = 0
        THEN /\ build' = "ok"
             /\ Finally
             /\ UNCHANGED exitCode
        ELSE /\ build' = "failed"
             /\ Catch
             /\ UNCHANGED <<signals, killed, graceUntil>>
    /\ UNCHANGED <<now, envVars, pollerVars, hist, kcmd, tina>>

\* lines 254-261: the sleep is over; if (!tinaProcess.killed) kill('SIGKILL');
\* then await killProcess('tinacms dev')
AfterGrace ==
    /\ mpc = "grace"
    /\ now >= graceUntil
    /\ IF ~killed /\ tina = "running"
       THEN /\ signals' = signals \cup {<<"SIGKILL", "kill">>}
            /\ killed' = TRUE
            /\ tina' = "exited"
       ELSE UNCHANGED <<signals, killed, tina>>
    /\ hist' = [hist EXCEPT !.stillRunning = tina = "running"]
    /\ mpc' = "killRest"
    /\ kcmd' = 1
    /\ UNCHANGED <<now, envVars, pollerVars, build, graceUntil, exitCode>>

\* main has returned; the process ends with status 0 once nothing keeps the
\* event loop alive (the handle of a running child does)
Exit ==
    /\ mpc = "done"
    /\ tina # "running"
    /\ mpc' = "exited"
    /\ exitCode' = 0
    /\ UNCHANGED <<now, envVars, pollerVars, hist, kcmd, tina, killed, signals,
                   build, graceUntil>>

Next ==
    \/ waitForTinaServer
    \/ OnTimer
    \/ OnConnect
    \/ OnError
    \/ OnSocketTimeout
    \/ AfterProbe
    \/ ExecDone
    \/ AfterFallback
    \/ AfterSleep
    \/ Advance
    \/ EnvChange

Spec == Init /\ [][Next]_vars

\* the callbacks and continuations of the event loop run when they are due,
\* and the clock moves on
FairSpec ==
    /\ Spec
    /\ WF_vars(waitForTinaServer)
    /\ WF_vars(OnTimer)
    /\ WF_vars(OnConnect)
    /\ WF_vars(OnError)
    /\ WF_vars(AfterProbe)
    /\ WF_vars(ExecDone)
    /\ WF_vars(AfterFallback)
    /\ WF_vars(AfterSleep)
    /\ WF_vars(Advance)

\* The script is run: nothing listens on the port yet, connects to the host
\* are answered, and waitForTinaServer is called with its default maxWaitTime.
MainInit ==
    /\ now \in StartTimes
    /\ sockets = {}
    /\ link = "ok"
    /\ envChanges = 0
    /\ pc = "init"
    /\ maxWaitTime = MAX_WAIT_TIME
    /\ startTime = 0
    /\ attempts = 0
    /\ sock = "none"
    /\ resolved = FALSE
    /\ timerArmed = FALSE
    /\ timerAt = 0
    /\ probeResult = "pending"
    /\ cmdIdx = 0
    /\ fbStart = 0
    /\ fbResult = FALSE
    /\ sleepUntil = 0
    /\ fired = {}
    /\ hist = [NoHist EXCEPT !.upSince = -1]
    /\ MainIdle("start")

MainNext ==
    \/ Next
    \/ main
    \/ killProcess
    \/ SpawnTina
    \/ ChildExit
    \/ SpawnBuild
    \/ WaitFailed
    \/ BuildClose
    \/ AfterGrace
    \/ Exit

MainSpec == MainInit /\ [][MainNext]_vars

(***************************************************************************)
(* Properties                                                              *)
(***************************************************************************)
Elapsed == now - startTime

\* C1: every run of waitForTinaServer ends, by returning or by throwing the
\* timeout error, whatever the target does
C1_Terminates == <>(pc \in {"returned", "failed"})
C1_Witness == pc = "failed" /\ attempts >= 2 /\ hist.sleeps >= 2

\* C2: waitForTinaServer returns only if a TCP listener was bound to
\* TINA_PORT itself when the probe that reported true did so
C2_ReturnsOnlyWhenListening ==
    pc = "returned" => hist.listenerAtSuccess

\* C3: resolve() is called exactly once per call of isPortListening, by the
\* first callback that runs; the result is true for connect and false for
\* error and timeout, and a later callback changes nothing
C3_FirstEventWins ==
    /\ hist.resolveCalls <= 1
    /\ hist.firstEvent = "none" =>
            hist.resolveCalls = 0 /\ probeResult = "pending"
    /\ hist.firstEvent # "none" =>
            /\ hist.resolveCalls = 1
            /\ probeResult = (IF hist.firstEvent = "connect" THEN "true" ELSE "false")
            /\ probeResult = hist.resultAtFirst
C3_Witness ==
    /\ hist.firstEvent = "connect"
    /\ hist.lateEvents >= 1
    /\ "error" \in fired

\* C4 as stated: when the result is delivered the socket has been destroyed
\* by a call of socket.destroy() in isPortListening
C4_ClosedByProbe ==
    probeResult # "pending" => sock = "destroyed" /\ hist.closedBy = "probe"

\* C4 amended: when the result is delivered, and from then on until the next
\* attempt or the return, the socket is destroyed: by isPortListening after
\* connect and after the timeout, by the runtime before 'error' is emitted
C4_SocketClosed ==
    /\ probeResult # "pending" =>
            /\ sock = "destroyed"
            /\ hist.firstEvent \in {"connect", "timer", "timeout"} => hist.closedBy = "probe"
            /\ hist.firstEvent = "error" => hist.closedBy = "runtime"
    /\ pc \in {"awaitCmd", "fbDone", "sleep", "returned"} => sock = "destroyed"
C4_Witness ==
    /\ hist.firstEvent = "timer"
    /\ sock = "destroyed"
    /\ pc = "sleep"

\* C5: a call of isPortListening is settled at most PROBE_TIMEOUT after it
\* began, also when neither connect nor error comes; without a listener on
\* the port the result is false
C5_ProbeBounded ==
    /\ (pc = "awaitProbe" /\ probeResult = "pending") =>
            now - hist.probeStartAt <= PROBE_TIMEOUT
    /\ probeResult # "pending" =>
            /\ hist.resolvedAt - hist.probeStartAt <= PROBE_TIMEOUT
            /\ hist.noListener => probeResult = "false"
C5_Witness ==
    /\ hist.firstEvent = "timer"
    /\ hist.noListener
    /\ probeResult = "false"
    /\ hist.resolvedAt - hist.probeStartAt = PROBE_TIMEOUT

\* C6: against a target that accepts connections isPortListening reports
\* true at once, on the connect event and by the socket method; after a
\* connect the timer is not pending and never fires
C6_ConnectWins ==
    /\ hist.firstEvent = "connect" =>
            /\ probeResult = "true"
            /\ ~timerArmed
            /\ ~hist.timerFiredAfterConnect
            /\ pc = "returned" => hist.method = "socket"
    /\ (hist.stableUp /\ hist.probes > 0) =>
            /\ now = hist.probeStartAt
            /\ probeResult # "pending" =>
                    hist.firstEvent = "connect" /\ hist.resolvedAt = hist.probeStartAt
C6_Witness ==
    /\ hist.firstEvent = "connect"
    /\ hist.stableUp
    /\ pc = "returned"
    /\ hist.method = "socket"

\* what the test of stdout.trim() lets through, and what the command looked for
Hit(e) == ~e.error /\ TrimNonEmpty(e.stdout)
MatchesPort(e) ==
    LET text == IF e.cmd = NumCommands THEN ToString16(TINA_PORT) ELSE ToString10(TINA_PORT)
    IN  \E l \in e.stdout : Contains(l, <<":">> \o text)

\* C7: isPortListeningFallback returns true exactly if one of the commands it
\* ran ended without error and with non-empty output, which then matches the
\* port (decimal, or lowercase hexadecimal for the kernel table); it returns
\* false only after all four commands, and it has no other exit
C7_FallbackIff ==
    pc = "fbDone" =>
        LET log == hist.cmdLog
        IN  /\ Len(log) \in 1..NumCommands
            /\ fbResult = (\E i \in 1..Len(log) : Hit(log[i]))
            /\ \A i \in 1..Len(log) : Hit(log[i]) => MatchesPort(log[i])
            /\ fbResult => Hit(log[Len(log)])
            /\ ~fbResult => Len(log) = NumCommands
C7_Witness ==
    /\ pc = "fbDone"
    /\ fbResult
    /\ Len(hist.cmdLog) = 3
    /\ hist.cmdLog[1].error

\* C8: the fallback runs only after the socket probe of the same attempt has
\* reported false; after a socket probe that reported true the function
\* returns and no fallback command runs in that attempt
C8_FallbackAfterPrimary ==
    /\ hist.fallbacks <= hist.probes
    /\ pc \in {"awaitCmd", "fbDone"} =>
            /\ probeResult = "false"
            /\ hist.fbAttempt = attempts
            /\ hist.fallbacks = hist.probes
    /\ probeResult = "true" =>
            /\ pc \in {"awaitProbe", "returned"}
            /\ hist.fbAttempt < attempts
            /\ hist.fallbacks = hist.probes - 1
C8_Witness ==
    /\ pc = "returned"
    /\ probeResult = "true"
    /\ hist.fallbacks >= 1

\* C9 as stated: no probe, socket or fallback, is started once the elapsed
\* time has reached maxWaitTime
C9_NoProbeAfterDeadline ==
    /\ hist.probes > 0 => hist.probeStartAt - startTime < maxWaitTime
    /\ hist.fallbacks > 0 => fbStart - startTime < maxWaitTime

\* C9 amended: the deadline is tested only at the top of the loop.  No
\* attempt, hence no socket probe, is started once the elapsed time has
\* reached maxWaitTime, and a loop test at or after the deadline throws the
\* timeout error; the fallback and the sleep of an attempt begun before the
\* deadline still run after it
C9_DeadlineAtLoopTest ==
    [][ /\ hist'.probes > hist.probes => now - startTime' < maxWaitTime
        /\ (pc \in {"init", "sleep"} /\ pc' # pc /\ now - startTime' >= maxWaitTime) =>
                (pc' = "failed" /\ attempts' = attempts /\ hist'.probes = hist.probes)
        /\ pc' = "failed" => (pc = "failed" \/ now - startTime' >= maxWaitTime)
      ]_vars
C9_Witness ==
    /\ pc = "failed"
    /\ hist.fallbacks > 0
    /\ fbStart - startTime >= maxWaitTime

\* C10 as stated: a target that did not accept at the call, began to accept
\* before the deadline and has accepted since never gets the timeout error
C10_UpBeforeDeadlineSucceeds ==
    ~ /\ pc = "failed"
      /\ hist.downAtStart
      /\ hist.upSince # -1
      /\ hist.upSince - startTime < maxWaitTime

\* C10 amended: the first attempt begun after the target began to accept (and
\* while it has accepted since) returns; the function returns in the attempt
\* during which the target began to accept or in the next one.  It throws the
\* timeout error if no attempt begins after that moment, also when that
\* moment is before the deadline
C10_FirstAttemptAfterUp ==
    (hist.downAtStart /\ hist.upSince # -1) =>
        /\ attempts \in {hist.upAttempts, hist.upAttempts + 1}
        /\ attempts > hist.upAttempts =>
                /\ pc \in {"awaitProbe", "returned"}
                /\ probeResult # "false"
        /\ pc = "failed" => attempts = hist.upAttempts
C10_Witness ==
    /\ pc = "returned"
    /\ hist.downAtStart
    /\ hist.upSince # -1
    /\ hist.upSince > startTime
    /\ attempts = hist.upAttempts + 1
    /\ attempts >= 2
    /\ Elapsed < maxWaitTime

\* C11: attempts starts at 0 and counts the calls of isPortListening, one per
\* turn of the loop; the Error thrown names maxWaitTime (in seconds) and that
\* count
C11_AttemptsReported ==
    /\ pc = "init" => attempts = 0
    /\ pc # "init" => attempts = hist.probes
    /\ pc = "failed" =>
            /\ Len(hist.error) = 2
            /\ hist.error[1] * 1000 = maxWaitTime
            /\ hist.error[2] = hist.probes
    /\ pc # "failed" => hist.error = <<>>
C11_Witness ==
    /\ pc = "failed"
    /\ hist.probes = 2
    /\ hist.error = <<3, 2>>

\* C12: with maxWaitTime = 0 the call throws at once: no socket, no command,
\* no sleep, and the Error names 0 attempts
C12_ZeroBudget ==
    (maxWaitTime = 0 /\ pc # "init") =>
        /\ pc = "failed"
        /\ attempts = 0
        /\ hist.error = <<0, 0>>
        /\ hist.probes = 0 /\ hist.fallbacks = 0 /\ hist.sleeps = 0
        /\ sock = "none" /\ ~timerArmed
        /\ now = startTime
C12_Witness ==
    /\ maxWaitTime = 0
    /\ pc = "failed"
    /\ hist.error = <<0, 0>>

\* C13: with maxWaitTime = 3000 (and the interval of 2000) a run in which no
\* probe reports true makes one or two attempts and throws the timeout
\* error, whatever the probes last
C13_OneOrTwoAttempts ==
    maxWaitTime = 3000 =>
        /\ attempts <= 2
        /\ pc = "failed" => (attempts \in {1, 2} /\ hist.error = <<3, attempts>>)
        /\ (pc = "sleep" /\ attempts = 2) => sleepUntil - startTime >= maxWaitTime
C13_Witness ==
    /\ maxWaitTime = 3000
    /\ pc = "failed"
    /\ attempts = 2
    /\ sockets = {}

\* C14: a refused connect, a probe timeout and a failing command only lead
\* to the fallback, the sleep and the next attempt; the only Error thrown to
\* the caller is the timeout error of line 155, at a loop test at or after
\* the deadline
C14_OnlyTimeoutSurfaces ==
    [][ /\ (pc' = "failed" /\ pc # "failed") =>
                /\ pc \in {"init", "sleep"}
                /\ now - startTime' >= maxWaitTime
                /\ Len(hist'.error) = 2
        /\ (pc = "awaitProbe" /\ pc' # pc /\ probeResult = "false") => pc' = "awaitCmd"
        /\ (pc = "awaitCmd" /\ pc' # pc) => pc' = "fbDone"
        /\ (pc = "fbDone" /\ pc' # pc /\ ~fbResult) => pc' = "sleep"
        /\ (pc = "sleep" /\ pc' # pc /\ now - startTime < maxWaitTime) =>
                (pc' = "awaitProbe" /\ attempts' = attempts + 1)
      ]_vars
C14_Witness ==
    /\ pc = "awaitProbe"
    /\ attempts >= 2
    /\ hist.firstEvent = "error"
    /\ Len(hist.cmdLog) = NumCommands
    /\ \A i \in 1..NumCommands : hist.cmdLog[i].error

\* probes in flight: the connecting socket, the shell command
InFlight ==
    (IF sock = "connecting" THEN 1 ELSE 0) + (IF pc = "awaitCmd" THEN 1 ELSE 0)
Order ==
    {<<"init", "awaitProbe">>, <<"init", "failed">>,
     <<"awaitProbe", "returned">>, <<"awaitProbe", "awaitCmd">>,
     <<"awaitCmd", "fbDone">>,
     <<"fbDone", "returned">>, <<"fbDone", "sleep">>,
     <<"sleep", "awaitProbe">>, <<"sleep", "failed">>}

\* C15: at most one probe is in flight, and an attempt goes socket probe,
\* then the fallback if the socket probe reported false, then the sleep,
\* before the socket probe of the next attempt
C15_Sequential ==
    [][ /\ InFlight' <= 1
        /\ sock' = "connecting" => pc' = "awaitProbe"
        /\ timerArmed' => sock' = "connecting"
        /\ pc' # pc => <<pc, pc'>> \in Order
        /\ hist'.probes > hist.probes => (pc \in {"init", "sleep"} /\ sock # "connecting")
        /\ hist'.fallbacks > hist.fallbacks =>
                (pc = "awaitProbe" /\ probeResult = "false" /\ sock' = "destroyed")
      ]_vars
C15_Witness ==
    /\ pc = "awaitProbe"
    /\ sock = "connecting"
    /\ attempts >= 2
    /\ hist.sleeps >= 1
    /\ hist.fallbacks >= 1

\* C17: the commands run in the order of the array (ss, netstat, lsof,
\* /proc/net/tcp), one at a time; the loop stops at the first command that
\* ends without error and with non-empty output, and after any other
\* command exactly the next one is run
C17_CommandOrder ==
    LET log == hist.cmdLog
    IN  /\ Len(log) <= NumCommands
        /\ \A i \in 1..Len(log) :
                /\ log[i].cmd = i
                /\ Hit(log[i]) => (i = Len(log) /\ pc # "awaitCmd")
        /\ pc = "awaitCmd" => (cmdIdx = Len(log) + 1 /\ sock = "destroyed")
        /\ (pc = "fbDone" /\ ~fbResult) => Len(log) = NumCommands
C17_Witness ==
    /\ pc = "fbDone"
    /\ Len(hist.cmdLog) = 2
    /\ hist.cmdLog[1].error
    /\ Hit(hist.cmdLog[2])

\* line 125, line 152: the loop is bounded by elapsed time alone
Ceil(a, b) == (a + b - 1) \div b

\* C18: two attempts in a row begin at least CHECK_INTERVAL apart, so a run
\* with maxWaitTime > 0 makes at most ceil(maxWaitTime / CHECK_INTERVAL)
\* attempts; nothing else limits the count, which reaches that number
C18_AttemptsBounded ==
    /\ hist.spaced
    /\ maxWaitTime > 0 => attempts <= Ceil(maxWaitTime, CHECK_INTERVAL)
    /\ pc = "sleep" => sleepUntil - hist.probeStartAt >= CHECK_INTERVAL
C18_Witness ==
    /\ maxWaitTime > PROBE_TIMEOUT
    /\ attempts = Ceil(maxWaitTime, CHECK_INTERVAL)
    /\ attempts = 3
    /\ pc = "failed"

\* C16: main spawns the build only after waitForTinaServer, called after the
\* dev server was spawned, has returned; when waitForTinaServer throws, no
\* build is spawned and the only step main takes is to exit with status 1
C16_BuildAfterReady ==
    [][ /\ (pc' # "init" /\ mpc' # "off") => tina' # "none"
        /\ build' # "none" => (pc' = "returned" /\ tina' # "none")
        /\ (build = "none" /\ build' # "none") => (pc = "returned" /\ mpc = "wait")
        /\ pc' = "failed" => build' = "none"
        /\ (pc = "failed" /\ mpc' # mpc) => (mpc' = "exited" /\ exitCode' = 1)
        /\ (pc' = "failed" /\ mpc' = "exited") => exitCode' = 1
      ]_vars
C16_Witness ==
    /\ build = "running"
    /\ pc = "returned"
    /\ hist.method = "socket"
    /\ tina = "running"
\* C19: when the script exits after it has spawned the dev server, the dev
\* server has been sent a signal (or has ended already): the finally clause
\* has run on every path, the failed wait and the failed build included
C19_TeardownBeforeExit ==
    (mpc = "exited" /\ tina = "running") => signals # {}

\* C20: once main is past line 257, a dev server that was still running when
\* the 2000 ms after SIGTERM were over has been sent SIGKILL by
\* tinaProcess.kill
C20_ForceKill ==
    (mpc \in {"killRest", "done", "exited"} /\ hist.stillRunning) =>
        <<"SIGKILL", "kill">> \in signals

====
